---- MODULE Spec2Model ----
(***************************************************************************)
(* @reach/tooltip: the global tooltip state chart, its two timers, the     *)
(* subscription list and the per-trigger bindings created by useTooltip    *)
(* (packages/tooltip/src/index.js).                                        *)
(*                                                                         *)
(* Time is kept relative: a pending timer is the number of time units left *)
(* until its callback is due, -1 when no callback is pending.  A due       *)
(* callback (0) runs before time advances further, but any input event may *)
(* still be handled before it and cancel it.                               *)
(*                                                                         *)
(* Trigger ids are the non-null values 1..NumTriggers; null is 0.          *)
(* Bindings are mounted without the DEBUG_STYLE prop.                      *)
(*                                                                         *)
(* Spec and FairSpec are the program: the only listeners are the callbacks *)
(* of the mounted bindings, and each unsubscribe handle is called once, by *)
(* the effect cleanup.  RegistrySpec exercises subscribe, the handles it   *)
(* returns and notify on their own, with listeners that may call their     *)
(* own handle while they are being notified.                               *)
(***************************************************************************)
EXTENDS Integers, Sequences, FiniteSets, TLC

VARIABLES state, context, restTimeout, leavingVisibleTimer, subscriptions,
          isVisible, mounted, disableTooltips, elapsed, last,
          subscribed, unsubscribed, selfUnsubscribing

vars == <<state, context, restTimeout, leavingVisibleTimer, subscriptions,
          isVisible, mounted, disableTooltips, elapsed, last,
          subscribed, unsubscribed, selfUnsubscribing>>

\* what RegistrySpec records about the listeners it has registered: those
\* passed to subscribe, those whose handle has been called, and those that
\* call their own handle when notified
registryVars == <<subscribed, unsubscribed, selfUnsubscribing>>

\* the part of the program state that transition() reads and writes
machineVars == <<state, context, restTimeout, leavingVisibleTimer, isVisible>>

----------------------------------------------------------------------------
\* Bounds of the model

NumTriggers == 2

Quantum == 50

MaxListeners == 3

----------------------------------------------------------------------------
\* Program constants

IDLE == "idle"

FOCUSED == "focused"

VISIBLE == "visible"

LEAVING_VISIBLE == "leavingVisible"

DISMISSED == "dismissed"

RestDelay == 100

LingerDelay == 500

null == 0

undefined == "undefined"

States == {IDLE, FOCUSED, VISIBLE, LEAVING_VISIBLE, DISMISSED}

Triggers == 1..NumTriggers

\* the listeners RegistrySpec passes to subscribe, told apart from the
\* bindings' callbacks
Listeners == (NumTriggers + 1)..(NumTriggers + MaxListeners)

\* every action name the program passes to transition(), plus the one the
\* chart names but nobody dispatches
Events == {"mouseenter", "mousemove", "mouseleave", "focus", "blur",
           "mousedown", "selectWithKeyboard", "globalMouseMove", "rest",
           "timecomplete"}

Keys == {"Enter", " ", "Tab"}

EscapeKeys == {"Escape", "Esc"}

DebugStyles == {FALSE}

NoTimer == -1

Min(a, b) == IF a < b THEN a ELSE b

\* the element of a one-element set: {e : x \in {v}} evaluates v once and
\* names its value x
The(S) == CHOOSE r \in S : TRUE

----------------------------------------------------------------------------
\* The chart

IdleOn == ("mouseenter" :> FOCUSED) @@ ("focus" :> VISIBLE)

FocusedOn ==
  ("mousemove" :> FOCUSED) @@ ("mouseleave" :> IDLE) @@
  ("mousedown" :> DISMISSED) @@ ("blur" :> IDLE) @@ ("rest" :> VISIBLE)

\* a faulty variant: leaving the trigger hides the tooltip at once
VisibleOn_noLinger ==
  ("focus" :> FOCUSED) @@ ("mouseenter" :> FOCUSED) @@
  ("mouseleave" :> IDLE) @@ ("blur" :> LEAVING_VISIBLE) @@
  ("mousedown" :> DISMISSED) @@ ("selectWithKeyboard" :> DISMISSED) @@
  ("globalMouseMove" :> LEAVING_VISIBLE)

VisibleOn ==
  ("focus" :> FOCUSED) @@ ("mouseenter" :> FOCUSED) @@
  ("mouseleave" :> LEAVING_VISIBLE) @@ ("blur" :> LEAVING_VISIBLE) @@
  ("mousedown" :> DISMISSED) @@ ("selectWithKeyboard" :> DISMISSED) @@
  ("globalMouseMove" :> LEAVING_VISIBLE)

\* a faulty variant: a pointer entering during the grace period has to rest
LeavingVisibleOn_rest ==
  ("mouseenter" :> FOCUSED) @@ ("focus" :> VISIBLE) @@
  ("timecomplete" :> IDLE)

LeavingVisibleOn ==
  ("mouseenter" :> VISIBLE) @@ ("focus" :> VISIBLE) @@
  ("timecomplete" :> IDLE)

\* a faulty variant: blur does not release a dismissed tooltip
DismissedOn_noBlur == ("mouseleave" :> IDLE)

\* a faulty variant: pointer motion brings a dismissed tooltip back
DismissedOn_mousemove ==
  ("mouseleave" :> IDLE) @@ ("blur" :> IDLE) @@ ("mousemove" :> FOCUSED)

DismissedOn == ("mouseleave" :> IDLE) @@ ("blur" :> IDLE)

chart ==
  [initial |-> IDLE,
   states |->
     (IDLE :> [enter |-> "clearContextId", leave |-> undefined,
               on |-> IdleOn]) @@
     (FOCUSED :> [enter |-> "startRestTimer", leave |-> "clearRestTimer",
                  on |-> FocusedOn]) @@
     (VISIBLE :> [enter |-> undefined, leave |-> undefined,
                  on |-> VisibleOn]) @@
     (LEAVING_VISIBLE :> [enter |-> "startLeavingVisibleTimer",
                          leave |-> "leaveLeavingVisible",
                          on |-> LeavingVisibleOn]) @@
     (DISMISSED :> [enter |-> undefined, leave |-> "leaveDismissed",
                    on |-> DismissedOn])]

----------------------------------------------------------------------------
\* Timers and context hooks.  m is the machine: the module globals plus the
\* bindings' isVisible flags and a log of the calls made in this step.

\* a faulty variant: the rest delay is half as long
startRestTimer_short(m) == [m EXCEPT !.restTimeout = RestDelay \div 2]

startRestTimer(m) == [m EXCEPT !.restTimeout = RestDelay]

\* a faulty variant: the leave hook forgets to cancel the timeout
clearRestTimer_noop(m) == m

clearRestTimer(m) == [m EXCEPT !.restTimeout = NoTimer]

startLeavingVisibleTimer(m) == [m EXCEPT !.leavingVisibleTimer = LingerDelay]

\* a faulty variant: the leave hook forgets to cancel the timeout
clearLeavingVisibleTimer_noop(m) == m

clearLeavingVisibleTimer(m) == [m EXCEPT !.leavingVisibleTimer = NoTimer]

\* a faulty variant: the context id survives
clearContextId_noop(m) == m

clearContextId(m) == [m EXCEPT !.context.id = null]

leaveLeavingVisible(m) == clearContextId(clearLeavingVisibleTimer(m))

leaveDismissed(m) == [m EXCEPT !.context.id = null]

runHook(hook, m) ==
  CASE hook = "clearContextId" -> clearContextId(m)
    [] hook = "startRestTimer" -> startRestTimer(m)
    [] hook = "clearRestTimer" -> clearRestTimer(m)
    [] hook = "startLeavingVisibleTimer" -> startLeavingVisibleTimer(m)
    [] hook = "leaveLeavingVisible" -> leaveLeavingVisible(m)
    [] hook = "leaveDismissed" -> leaveDismissed(m)
    [] OTHER -> m

----------------------------------------------------------------------------
\* Subscriptions

\* the callback a binding with identity id registers in its effect
\* a faulty variant: the callback has lost its else branch
subscriber_noElse(m, id) ==
  [m EXCEPT !.isVisible[id] =
              (@ \/ (m.context.id = id
                       /\ m.state \in {VISIBLE, LEAVING_VISIBLE})),
            !.notified = Append(@, id)]

subscriber(m, id) ==
  [m EXCEPT !.isVisible[id] =
              (m.context.id = id /\ m.state \in {VISIBLE, LEAVING_VISIBLE}),
            !.notified = Append(@, id)]

subscribe(subs, fn) == Append(subs, fn)

\* Array.prototype.indexOf: zero-based index of the first match, or -1
indexOf(subs, fn) ==
  IF \E i \in 1..Len(subs) : subs[i] = fn
  THEN (CHOOSE i \in 1..Len(subs) :
          subs[i] = fn /\ \A j \in 1..(i - 1) : subs[j] # fn) - 1
  ELSE -1

\* Array.prototype.splice(start, 1): a negative start counts from the end
splice(subs, start) ==
  LET from == IF start < 0
              THEN (IF Len(subs) + start < 0 THEN 0 ELSE Len(subs) + start)
              ELSE Min(start, Len(subs))
  IN [i \in 1..(IF from < Len(subs) THEN Len(subs) - 1 ELSE Len(subs)) |->
        IF i <= from THEN subs[i] ELSE subs[i + 1]]

unsubscribe(subs, fn) == splice(subs, indexOf(subs, fn))

\* a listener of RegistrySpec: it notes that it ran and, if it is one of the
\* self-unsubscribing ones, calls the handle subscribe returned for it
probe(m, fn) ==
  IF fn \in m.selfUnsubscribing
  THEN [m EXCEPT !.notified = Append(@, fn),
                 !.subscriptions = unsubscribe(@, fn),
                 !.unsubscribed = @ \cup {fn}]
  ELSE [m EXCEPT !.notified = Append(@, fn)]

\* fn(state, context)
call(m, fn) == IF fn \in Triggers THEN subscriber(m, fn) ELSE probe(m, fn)

\* subscriptions.forEach(fn => fn(state, context)): the array is read afresh
\* at every index
RECURSIVE forEach(_, _)
forEach(machine, i) ==
  The({IF i > Len(m.subscriptions) THEN m
       ELSE forEach(call(m, m.subscriptions[i]), i + 1) :
         m \in {machine}})

notify(m) == forEach(m, 1)

----------------------------------------------------------------------------
\* transition

\* a faulty variant: the new context is installed before the edge is looked up
transition_swapFirst(machine, action, newContext) ==
  The({LET stateDef == chart.states[m.state]
           nextState == IF action \in DOMAIN stateDef.on
                        THEN stateDef.on[action] ELSE undefined
           called == [m EXCEPT !.calls = @ + 1, !.action = action]
           swapped == IF Len(newContext) > 0
                      THEN [called EXCEPT !.context = newContext[1]]
                      ELSE called
       IN IF nextState = undefined THEN swapped
          ELSE LET left == runHook(stateDef.leave, swapped)
                   entered == runHook(chart.states[nextState].enter, left)
                   moved == [entered EXCEPT !.state = nextState,
                                            !.taken = @ + 1]
               IN notify(moved) :
         m \in {machine}})

\* a faulty variant: an edge back to the same state runs no hooks
transition_skipSelf(machine, action, newContext) ==
  The({LET stateDef == chart.states[m.state]
           nextState == IF action \in DOMAIN stateDef.on
                        THEN stateDef.on[action] ELSE undefined
           called == [m EXCEPT !.calls = @ + 1, !.action = action]
       IN IF nextState = undefined THEN called
          ELSE LET left == IF nextState = m.state THEN called
                           ELSE runHook(stateDef.leave, called)
                   swapped == IF Len(newContext) > 0
                              THEN [left EXCEPT !.context = newContext[1]]
                              ELSE left
                   entered == IF nextState = m.state THEN swapped
                              ELSE runHook(chart.states[nextState].enter,
                                           swapped)
                   moved == [entered EXCEPT !.state = nextState,
                                            !.taken = @ + 1]
               IN notify(moved) :
         m \in {machine}})

\* a faulty variant: the subscribers are notified before the state is assigned
transition_notifyFirst(machine, action, newContext) ==
  The({LET stateDef == chart.states[m.state]
           nextState == IF action \in DOMAIN stateDef.on
                        THEN stateDef.on[action] ELSE undefined
           called == [m EXCEPT !.calls = @ + 1, !.action = action]
       IN IF nextState = undefined THEN called
          ELSE LET left == runHook(stateDef.leave, called)
                   swapped == IF Len(newContext) > 0
                              THEN [left EXCEPT !.context = newContext[1]]
                              ELSE left
                   entered == runHook(chart.states[nextState].enter, swapped)
                   notified == notify(entered)
               IN [notified EXCEPT !.state = nextState, !.taken = @ + 1] :
         m \in {machine}})

transition(machine, action, newContext) ==
  The({LET stateDef == chart.states[m.state]
           nextState == IF action \in DOMAIN stateDef.on
                        THEN stateDef.on[action] ELSE undefined
           called == [m EXCEPT !.calls = @ + 1, !.action = action]
       IN IF nextState = undefined THEN called
          ELSE LET left == runHook(stateDef.leave, called)
                   swapped == IF Len(newContext) > 0
                              THEN [left EXCEPT !.context = newContext[1]]
                              ELSE left
                   entered == runHook(chart.states[nextState].enter, swapped)
                   moved == [entered EXCEPT !.state = nextState,
                                            !.taken = @ + 1]
               IN notify(moved) :
         m \in {machine}})

----------------------------------------------------------------------------
\* useTooltip: the handlers of the binding with identity id

initialIsVisible(DEBUG_STYLE, id) ==
  IF DEBUG_STYLE THEN TRUE
  ELSE IF id = null THEN FALSE
  ELSE context.id = id /\ state = VISIBLE

handleMouseEnter(m, id) == transition(m, "mouseenter", <<[id |-> id]>>)

handleMouseMove(m, id) == transition(m, "mousemove", <<[id |-> id]>>)

\* a faulty variant: the suppression switch is not consulted
handleFocus_noSwitch(m, id) == transition(m, "focus", <<[id |-> id]>>)

handleFocus(m, id) ==
  IF disableTooltips THEN m ELSE transition(m, "focus", <<[id |-> id]>>)

handleMouseLeave(m, id) == transition(m, "mouseleave", <<>>)

\* a faulty variant: the guard against another trigger's blur is missing
handleBlur_noGuard(m, id) == transition(m, "blur", <<>>)

handleBlur(m, id) ==
  IF m.context.id # id THEN m ELSE transition(m, "blur", <<>>)

\* a faulty variant: the guard against another trigger's mousedown is missing
handleMouseDown_noGuard(m, id) == transition(m, "mousedown", <<>>)

handleMouseDown(m, id) ==
  IF m.context.id # id THEN m ELSE transition(m, "mousedown", <<>>)

handleKeyDown(m, key) ==
  IF key = "Enter" \/ key = " " THEN transition(m, "selectWithKeyboard", <<>>)
  ELSE m

\* a faulty variant: the listener does not look at the state
listener_noStateCheck(m, key) ==
  IF key = "Escape" \/ key = "Esc"
  THEN transition(m, "selectWithKeyboard", <<>>)
  ELSE m

\* the document keydown listener of one binding
listener(m, key) ==
  IF (key = "Escape" \/ key = "Esc") /\ m.state = VISIBLE
  THEN transition(m, "selectWithKeyboard", <<>>)
  ELSE m

\* the document dispatches the event to the listener of every mounted binding
RECURSIVE dispatchKeydown(_, _, _)
dispatchKeydown(m, key, n) ==
  IF n = 0 THEN m ELSE dispatchKeydown(listener(m, key), key, n - 1)

----------------------------------------------------------------------------
\* The state machine of the whole program

Machine ==
  [state |-> state, context |-> context, restTimeout |-> restTimeout,
   leavingVisibleTimer |-> leavingVisibleTimer,
   subscriptions |-> subscriptions, isVisible |-> isVisible,
   unsubscribed |-> unsubscribed, selfUnsubscribing |-> selfUnsubscribing,
   action |-> "none", calls |-> 0, taken |-> 0, notified |-> <<>>]

\* last: what the latest step did (the DOM event or timer that ran, the
\* binding it came from, the state and context id it found, the action name
\* handed to transition(), how often transition() was called and took an
\* edge, and the subscribers notified)
NoEvent == [ev |-> "none", by |-> 0, from |-> "none", was |-> null,
            action |-> "none", calls |-> 0, taken |-> 0, notified |-> <<>>]

Init ==
  /\ state = chart.initial
  /\ context = [id |-> null]
  /\ restTimeout = NoTimer
  /\ leavingVisibleTimer = NoTimer
  /\ subscriptions = <<>>
  /\ isVisible = [t \in Triggers |-> FALSE]
  /\ mounted = {}
  /\ disableTooltips = FALSE
  /\ elapsed = 0
  /\ last = NoEvent
  /\ subscribed = {}
  /\ unsubscribed = {}
  /\ selfUnsubscribing = {}

\* install the outcome of one handler run
Commit(outcome, ev, by) ==
  \E m \in {outcome} :
    /\ state' = m.state
    /\ context' = m.context
    /\ restTimeout' = m.restTimeout
    /\ leavingVisibleTimer' = m.leavingVisibleTimer
    /\ isVisible' = m.isVisible
    /\ elapsed' = IF m.state = state THEN elapsed ELSE 0
    /\ last' = [ev |-> ev, by |-> by, from |-> state, was |-> context.id,
                action |-> m.action, calls |-> m.calls, taken |-> m.taken,
                notified |-> m.notified]
    /\ UNCHANGED <<subscriptions, mounted, disableTooltips, registryVars>>

Mount(id) ==
  /\ id \notin mounted
  /\ \E DEBUG_STYLE \in DebugStyles :
       isVisible' = [isVisible EXCEPT ![id] = initialIsVisible(DEBUG_STYLE, id)]
  /\ subscriptions' = subscribe(subscriptions, id)
  /\ mounted' = mounted \cup {id}
  /\ last' = NoEvent
  /\ UNCHANGED <<state, context, restTimeout, leavingVisibleTimer,
                 disableTooltips, elapsed, registryVars>>

Unmount(id) ==
  /\ id \in mounted
  /\ subscriptions' = unsubscribe(subscriptions, id)
  /\ mounted' = mounted \ {id}
  /\ isVisible' = [isVisible EXCEPT ![id] = FALSE]
  /\ last' = NoEvent
  /\ UNCHANGED <<state, context, restTimeout, leavingVisibleTimer,
                 disableTooltips, elapsed, registryVars>>

SetDisableTooltips ==
  /\ disableTooltips' = ~disableTooltips
  /\ last' = NoEvent
  /\ UNCHANGED <<state, context, restTimeout, leavingVisibleTimer,
                 subscriptions, isVisible, mounted, elapsed, registryVars>>

MouseEnter(id) ==
  id \in mounted /\ Commit(handleMouseEnter(Machine, id), "mouseenter", id)

MouseMove(id) ==
  id \in mounted /\ Commit(handleMouseMove(Machine, id), "mousemove", id)

MouseLeave(id) ==
  id \in mounted /\ Commit(handleMouseLeave(Machine, id), "mouseleave", id)

Focus(id) ==
  id \in mounted /\ Commit(handleFocus(Machine, id), "focus", id)

Blur(id) ==
  id \in mounted /\ Commit(handleBlur(Machine, id), "blur", id)

MouseDown(id) ==
  id \in mounted /\ Commit(handleMouseDown(Machine, id), "mousedown", id)

KeyDown(id) ==
  /\ id \in mounted
  /\ \E key \in Keys : Commit(handleKeyDown(Machine, key), "keydown", id)

Escape ==
  /\ mounted # {}
  /\ \E key \in EscapeKeys :
       Commit(dispatchKeydown(Machine, key, Cardinality(mounted)), "escape", 0)

\* the rest timeout callback runs: () => transition("rest")
RestFire ==
  /\ restTimeout = 0
  /\ Commit(transition([Machine EXCEPT !.restTimeout = NoTimer], "rest", <<>>),
            "rest", 0)

\* the leaving-visible timeout callback runs: () => transition("timecomplete")
LingerFire ==
  /\ leavingVisibleTimer = 0
  /\ Commit(transition([Machine EXCEPT !.leavingVisibleTimer = NoTimer],
                       "timecomplete", <<>>),
            "timecomplete", 0)

Pending == {x \in {restTimeout, leavingVisibleTimer} : x # NoTimer}

\* the time to the next deadline, or Quantum if that is sooner
Step ==
  LET rest == IF restTimeout = NoTimer THEN Quantum ELSE restTimeout
      linger == IF leavingVisibleTimer = NoTimer THEN Quantum
                ELSE leavingVisibleTimer
  IN Min(Quantum, Min(rest, linger))

\* time advances by at most Quantum, and never past a pending deadline
Tick ==
  /\ Pending # {}
  /\ \A x \in Pending : x > 0
  /\ LET d == Step
     IN /\ restTimeout' = IF restTimeout = NoTimer THEN NoTimer
                          ELSE restTimeout - d
        /\ leavingVisibleTimer' = IF leavingVisibleTimer = NoTimer THEN NoTimer
                                  ELSE leavingVisibleTimer - d
        /\ elapsed' = IF state = FOCUSED THEN Min(RestDelay, elapsed + d)
                      ELSE IF state = LEAVING_VISIBLE
                      THEN Min(LingerDelay, elapsed + d)
                      ELSE elapsed
  /\ last' = NoEvent
  /\ UNCHANGED <<state, context, subscriptions, isVisible, mounted,
                 disableTooltips, registryVars>>

Next ==
  \/ \E id \in Triggers : Mount(id)
  \/ \E id \in Triggers : Unmount(id)
  \/ SetDisableTooltips
  \/ \E id \in Triggers : MouseEnter(id)
  \/ \E id \in Triggers : MouseMove(id)
  \/ \E id \in Triggers : MouseLeave(id)
  \/ \E id \in Triggers : Focus(id)
  \/ \E id \in Triggers : Blur(id)
  \/ \E id \in Triggers : MouseDown(id)
  \/ \E id \in Triggers : KeyDown(id)
  \/ Escape
  \/ RestFire
  \/ LingerFire
  \/ Tick

Spec == Init /\ [][Next]_vars

\* the event loop keeps running due timer callbacks and time keeps passing
FairSpec == Spec /\ WF_vars(Tick) /\ WF_vars(RestFire) /\ WF_vars(LingerFire)

\* the variables RegistrySpec leaves alone
programVars == <<state, context, restTimeout, leavingVisibleTimer, isVisible,
                 mounted, disableTooltips, elapsed>>

\* subscribe(fn) for a listener not registered before; unsub says whether
\* fn will call its own handle when it is notified
Subscribe(fn, unsub) ==
  /\ fn \notin subscribed
  /\ subscriptions' = subscribe(subscriptions, fn)
  /\ subscribed' = subscribed \cup {fn}
  /\ selfUnsubscribing' = IF unsub THEN selfUnsubscribing \cup {fn}
                          ELSE selfUnsubscribing
  /\ last' = [NoEvent EXCEPT !.ev = "subscribe", !.by = fn]
  /\ UNCHANGED <<programVars, unsubscribed>>

\* the handle subscribe returned for fn is called, for the first time or
\* again
Unsubscribe(fn) ==
  /\ fn \in subscribed
  /\ subscriptions' = unsubscribe(subscriptions, fn)
  /\ unsubscribed' = unsubscribed \cup {fn}
  /\ last' = [NoEvent EXCEPT !.ev = "unsubscribe", !.by = fn]
  /\ UNCHANGED <<programVars, subscribed, selfUnsubscribing>>

\* one notification pass, as transition() starts it
Notify ==
  /\ \E m \in {notify(Machine)} :
       /\ subscriptions' = m.subscriptions
       /\ unsubscribed' = m.unsubscribed
       /\ last' = [NoEvent EXCEPT !.ev = "notify", !.notified = m.notified]
  /\ UNCHANGED <<programVars, subscribed, selfUnsubscribing>>

RegistryNext ==
  \/ \E fn \in Listeners : \E unsub \in BOOLEAN : Subscribe(fn, unsub)
  \/ \E fn \in Listeners : Unsubscribe(fn)
  \/ Notify

RegistrySpec == Init /\ [][RegistryNext]_vars

TypeOK ==
  /\ state \in States
  /\ context.id \in Triggers \cup {null}
  /\ restTimeout \in {NoTimer} \cup (0..RestDelay)
  /\ leavingVisibleTimer \in {NoTimer} \cup (0..LingerDelay)
  /\ isVisible \in [Triggers -> BOOLEAN]
  /\ mounted \subseteq Triggers
  /\ elapsed \in 0..LingerDelay
  /\ subscribed \subseteq Listeners
  /\ unsubscribed \subseteq subscribed
  /\ selfUnsubscribing \subseteq subscribed

----------------------------------------------------------------------------
\* Properties

VisibleTriggers == {t \in mounted : isVisible[t]}

\* C1: after any sequence of input events from any mounted triggers with
\* distinct ids, interleaved with timer firings, at most one trigger's local
\* isVisible flag is true.
C1_SingletonVisibility == Cardinality(VisibleTriggers) <= 1

\* every trigger is mounted and a mouseenter during the grace period has
\* just made the tooltip of trigger last.by the visible one
C1_Witness ==
  /\ mounted = Triggers
  /\ state = VISIBLE
  /\ last.ev = "mouseenter"
  /\ last.taken = 1
  /\ isVisible[last.by]
  /\ last.by # 1

\* the table of the specification, written out edge by edge
SpecTable(s, e) ==
  CASE s = IDLE /\ e = "mouseenter" -> FOCUSED
    [] s = IDLE /\ e = "focus" -> VISIBLE
    [] s = FOCUSED /\ e = "mousemove" -> FOCUSED
    [] s = FOCUSED /\ e = "mouseleave" -> IDLE
    [] s = FOCUSED /\ e = "mousedown" -> DISMISSED
    [] s = FOCUSED /\ e = "blur" -> IDLE
    [] s = FOCUSED /\ e = "rest" -> VISIBLE
    [] s = VISIBLE /\ e = "focus" -> FOCUSED
    [] s = VISIBLE /\ e = "mouseenter" -> FOCUSED
    [] s = VISIBLE /\ e = "mouseleave" -> LEAVING_VISIBLE
    [] s = VISIBLE /\ e = "blur" -> LEAVING_VISIBLE
    [] s = VISIBLE /\ e = "mousedown" -> DISMISSED
    [] s = VISIBLE /\ e = "selectWithKeyboard" -> DISMISSED
    [] s = VISIBLE /\ e = "globalMouseMove" -> LEAVING_VISIBLE
    [] s = LEAVING_VISIBLE /\ e = "mouseenter" -> VISIBLE
    [] s = LEAVING_VISIBLE /\ e = "focus" -> VISIBLE
    [] s = LEAVING_VISIBLE /\ e = "timecomplete" -> IDLE
    [] s = DISMISSED /\ e = "mouseleave" -> IDLE
    [] s = DISMISSED /\ e = "blur" -> IDLE
    [] OTHER -> s

\* C2: for every state s and every event e, transition(e, ctx) called in s
\* ends in the state the specification's table gives for (s, e), and no
\* other pair changes the state: both for every call the program makes and
\* for transition applied to every (s, e) pair, dispatched or not.
C2_TableConformance ==
  /\ [](\A s \in States : \A e \in Events : \A id \in Triggers :
          /\ transition([Machine EXCEPT !.state = s], e, <<>>).state
               = SpecTable(s, e)
          /\ transition([Machine EXCEPT !.state = s], e, <<[id |-> id]>>).state
               = SpecTable(s, e))
  /\ [][last'.calls = 1 => state' = SpecTable(state, last'.action)]_vars

\* a keyboard activation has just dismissed the visible tooltip
C2_Witness ==
  /\ state = DISMISSED
  /\ last.action = "selectWithKeyboard"
  /\ last.ev = "keydown"
  /\ last.taken = 1

HasEdge(s, e) == e \in DOMAIN chart.states[s].on

C4_ContextInvariant ==
  /\ state \in {FOCUSED, VISIBLE, LEAVING_VISIBLE} => context.id # null
  /\ state = IDLE => context.id = null

\* the linger timer has just returned the machine to Idle
C4_Witness ==
  /\ state = IDLE
  /\ context.id = null
  /\ last.action = "timecomplete"
  /\ last.taken = 1

\* C5: a rest timer is pending only in Focused and a linger timer only in
\* LeavingVisible, so the two are never pending together; and a rest or
\* timecomplete callback only ever runs in Focused / LeavingVisible, where
\* it takes its edge.
C5_TimerInvariant ==
  /\ [](/\ restTimeout # NoTimer => state = FOCUSED
        /\ leavingVisibleTimer # NoTimer => state = LEAVING_VISIBLE
        /\ ~(restTimeout # NoTimer /\ leavingVisibleTimer # NoTimer))
  /\ [][/\ last'.ev = "rest" => state = FOCUSED /\ last'.taken = 1
        /\ last'.ev = "timecomplete"
             => state = LEAVING_VISIBLE /\ last'.taken = 1]_vars

\* a rest timer is part-way through its delay
C5_Witness ==
  /\ state = FOCUSED
  /\ restTimeout > 0
  /\ restTimeout < RestDelay
  /\ leavingVisibleTimer = NoTimer

ExitEvents == {"mouseleave", "blur", "mousedown"}

\* an exit event has just been taken
Exited == last.action \in ExitEvents /\ last.taken = 1

\* a mousemove has just been taken in Focused
Moved == state = FOCUSED /\ last.action = "mousemove" /\ last.taken = 1

C7_LingerGrace ==
  /\ [][state = LEAVING_VISIBLE /\ last'.action \in {"mouseenter", "focus"}
          /\ last'.calls = 1
          => /\ state' = VISIBLE
             /\ leavingVisibleTimer' = NoTimer
             /\ context'.id = last'.by]_vars
  /\ [](state # LEAVING_VISIBLE => leavingVisibleTimer = NoTimer)
  /\ [][last'.ev = "timecomplete"
          => /\ state = LEAVING_VISIBLE
             /\ elapsed = LingerDelay
             /\ state' = IDLE]_vars
  /\ [][state = LEAVING_VISIBLE /\ state' # LEAVING_VISIBLE
          => \/ state' = VISIBLE /\ last'.action \in {"mouseenter", "focus"}
             \/ state' = IDLE /\ last'.ev = "timecomplete"]_vars
  /\ (state = LEAVING_VISIBLE) ~> (state \in {VISIBLE, IDLE})

\* a mouseenter arrived during the grace period and restored Visible with
\* no timer left behind
C7_Witness ==
  /\ state = VISIBLE
  /\ last.action = "mouseenter"
  /\ last.taken = 1
  /\ leavingVisibleTimer = NoTimer
  /\ isVisible[last.by]

\* C8: Dismissed is entered only by mousedown or selectWithKeyboard; while
\* the machine is Dismissed no trigger is visible and no timer is pending,
\* and no event or timer moves it anywhere but to Idle, by a mouseleave or
\* blur transition.
C8_DismissLock ==
  /\ [](state = DISMISSED
          => /\ \A t \in Triggers : ~isVisible[t]
             /\ restTimeout = NoTimer
             /\ leavingVisibleTimer = NoTimer)
  /\ [][state = DISMISSED /\ state' # DISMISSED
          => /\ state' = IDLE
             /\ last'.action \in {"mouseleave", "blur"}
             /\ last'.taken = 1]_vars
  /\ [][state # DISMISSED /\ state' = DISMISSED
          => last'.action \in {"mousedown", "selectWithKeyboard"}]_vars

\* a focus event reached the machine while it was Dismissed and was dropped
C8_Witness ==
  /\ state = DISMISSED
  /\ last.ev = "focus"
  /\ last.calls = 1
  /\ last.taken = 0
  /\ last.by = context.id

\* C9 as stated: when the machine is Focused with context A and another
\* trigger B receives focus, the context stops pointing at A, and a blur or
\* mousedown on A that follows is ignored.
C9_Original ==
  [][/\ (state = FOCUSED /\ last'.ev = "focus" /\ last'.calls = 1
           /\ last'.by # context.id)
          => context'.id # context.id
     /\ (state = FOCUSED /\ last.ev = "focus" /\ last.calls = 1
           /\ last.taken = 0 /\ last.by # context.id
           /\ last'.ev \in {"blur", "mousedown"} /\ last'.by = context.id)
          => last'.calls = 0 /\ UNCHANGED machineVars]_vars

\* C9 (amended): a focus event has no edge in Focused, so when the machine
\* is Focused with context A and another trigger B receives focus nothing
\* changes and the context still points at A (A's blur or mousedown is then
\* still dispatched); in Idle, Visible and LeavingVisible B's focus is taken
\* and makes B the context; and a blur or mousedown from a trigger the
\* context does not point at is always ignored.
C9_FocusRace ==
  [][/\ (state = FOCUSED /\ last'.ev = "focus" /\ last'.calls = 1)
          => last'.taken = 0 /\ UNCHANGED machineVars
     /\ (state = FOCUSED /\ last'.ev \in {"blur", "mousedown"}
           /\ last'.by = context.id)
          => last'.taken = 1 /\ state' \in {IDLE, DISMISSED}
     /\ (state \in {IDLE, VISIBLE, LEAVING_VISIBLE} /\ last'.ev = "focus"
           /\ last'.calls = 1)
          => last'.taken = 1 /\ context'.id = last'.by
     /\ (last'.ev \in {"blur", "mousedown"} /\ last'.by # context.id)
          => last'.calls = 0 /\ UNCHANGED machineVars]_vars

\* B's focus was taken while A's tooltip was showing, and A's blur that
\* followed was ignored
C9_Witness ==
  /\ state = FOCUSED
  /\ last.ev = "blur"
  /\ last.calls = 0
  /\ context.id # last.by
  /\ restTimeout = RestDelay
  /\ mounted = Triggers

\* C10: when the state is Visible with context t1 and t1 visible, a
\* mouseenter from a different trigger t2 leaves the machine Visible with
\* context t2 at once, t1 hidden and t2 visible, without any rest delay.
C10_SkipRest ==
  [][(state = VISIBLE /\ context.id \in mounted /\ isVisible[context.id]
        /\ last'.ev = "mouseenter" /\ last'.by # context.id)
       => /\ state' = VISIBLE
          /\ context'.id = last'.by
          /\ ~isVisible'[context.id]
          /\ isVisible'[last'.by]]_vars

Showing == {VISIBLE, LEAVING_VISIBLE}

\* C11: with the suppression switch off, a focus event on trigger t while
\* the machine is Idle moves it in that one transition to Visible with
\* context t, starts no timer and makes t visible; with the switch on, a
\* focus event in any state dispatches nothing and leaves state, context,
\* timers and visibility unchanged.
C11_FocusDisplay ==
  [][/\ (last'.ev = "focus" /\ ~disableTooltips /\ state = IDLE)
          => /\ last'.calls = 1
             /\ last'.taken = 1
             /\ state' = VISIBLE
             /\ context'.id = last'.by
             /\ restTimeout' = NoTimer
             /\ leavingVisibleTimer' = NoTimer
             /\ isVisible'[last'.by]
     /\ (last'.ev = "focus" /\ disableTooltips)
          => /\ last'.calls = 0
             /\ last'.notified = <<>>
             /\ UNCHANGED machineVars]_vars

\* a focus event has just taken the Idle machine to Visible
C11_Witness ==
  /\ last.ev = "focus"
  /\ last.from = IDLE
  /\ ~disableTooltips
  /\ state = VISIBLE
  /\ context.id = last.by
  /\ isVisible[last.by]
  /\ restTimeout = NoTimer

\* C12: with one or more bindings mounted, each with its own document
\* keydown listener, Escape pressed in Visible leaves the machine Dismissed
\* with the same context after exactly one call of transition(), one edge
\* taken and one notification pass; Escape pressed in any other state calls
\* nothing and changes neither state, context, timers nor visibility.
C12_EscapeDismissal ==
  [][last'.ev = "escape"
       => IF state = VISIBLE
          THEN /\ state' = DISMISSED
               /\ last'.calls = 1
               /\ last'.taken = 1
               /\ last'.notified = subscriptions
               /\ context' = context
               /\ restTimeout' = NoTimer
               /\ leavingVisibleTimer' = NoTimer
          ELSE /\ last'.calls = 0
               /\ last'.notified = <<>>
               /\ UNCHANGED machineVars]_vars

\* Escape has just dismissed a visible tooltip while several listeners were
\* attached to the document
C12_Witness ==
  /\ last.ev = "escape"
  /\ last.from = VISIBLE
  /\ state = DISMISSED
  /\ last.taken = 1
  /\ Cardinality(mounted) >= 2

Range(seq) == {seq[i] : i \in 1..Len(seq)}

Count(fn, seq) == Cardinality({i \in 1..Len(seq) : seq[i] = fn})

\* C13: when listeners call their own unsubscribe handle during a
\* notification pass, every listener that was registered when the pass began
\* and has not been unsubscribed is invoked exactly once in that pass, and
\* afterwards the registry holds exactly the listeners that were not
\* unsubscribed.
C13_NotifySafety ==
  [][last'.ev = "notify"
       => /\ \A fn \in Range(subscriptions) \ unsubscribed' :
               Count(fn, last'.notified) = 1
          /\ Range(subscriptions') = Range(subscriptions) \ unsubscribed']_vars

\* C14: the local visibility of every mounted trigger id equals
\* (context.id = id and the state is Visible or LeavingVisible), after every
\* transition and for the value computed at mount, whatever the state is at
\* the moment of mounting.
C14_LocalVisibility ==
  \A id \in mounted : isVisible[id] = (context.id = id /\ state \in Showing)

\* C15: a blur or mousedown from a trigger other than the one the context
\* names dispatches nothing in any state: no call of transition(), no
\* notification, and state, context, both timers, every trigger's visibility
\* and the subscriber list are unchanged.
C15_ExitGuard ==
  [][(last'.ev \in {"blur", "mousedown"} /\ last'.by # context.id)
       => /\ last'.calls = 0
          /\ last'.taken = 0
          /\ last'.notified = <<>>
          /\ UNCHANGED <<state, context, restTimeout, leavingVisibleTimer,
                         isVisible, subscriptions>>]_vars

\* a mousedown on another trigger has just been ignored while the tooltip of
\* the context's trigger is showing
C15_Witness ==
  /\ last.ev = "mousedown"
  /\ last.calls = 0
  /\ last.by # context.id
  /\ state = VISIBLE
  /\ isVisible[context.id]

\* C16: every taken transition runs the leave hook, then replaces the
\* context if one was supplied, then runs the enter hook, then notifies:
\* each registered subscriber is invoked exactly once, in registration
\* order, and computes its visibility from the new state and the new
\* context; a supplied context survives the leave hook; the timers are those
\* the target state's enter hook leaves behind.
C16_TransitionOrder ==
  [][last'.taken >= 1
       => /\ last'.taken = 1
          /\ last'.notified = subscriptions
          /\ \A id \in mounted :
               isVisible'[id] = (context'.id = id /\ state' \in Showing)
          /\ last'.action \in {"mouseenter", "mousemove", "focus"}
               => context'.id = last'.by
          /\ restTimeout' = IF state' = FOCUSED THEN RestDelay ELSE NoTimer
          /\ leavingVisibleTimer' =
               IF state' = LEAVING_VISIBLE THEN LingerDelay ELSE NoTimer]_vars

\* a mouseenter from another trigger was taken during the grace period with
\* several subscribers registered: the leave hook cleared the old context,
\* the new one was installed after it, and every subscriber was notified
C16_Witness ==
  /\ last.taken = 1
  /\ last.action = "mouseenter"
  /\ last.from = LEAVING_VISIBLE
  /\ last.was # last.by
  /\ context.id = last.by
  /\ Len(last.notified) >= 2
  /\ leavingVisibleTimer = NoTimer

C18_GraceSkipsRest ==
  [][(/\ state = LEAVING_VISIBLE
      /\ last'.ev = "mouseenter" \/ (last'.ev = "focus" /\ ~disableTooltips)
      /\ last'.by # context.id)
       => /\ last'.taken = 1
          /\ state' = VISIBLE
          /\ context'.id = last'.by
          /\ leavingVisibleTimer' = NoTimer
          /\ restTimeout' = NoTimer
          /\ isVisible'[last'.by]
          /\ \A id \in Triggers \ {last'.by} : ~isVisible'[id]]_vars

\* during the grace period of one trigger a focus on another has just made
\* the other's tooltip visible
C18_Witness ==
  /\ last.ev = "focus"
  /\ last.from = LEAVING_VISIBLE
  /\ last.was \in mounted \ {last.by}
  /\ state = VISIBLE
  /\ context.id = last.by
  /\ isVisible[last.by]
  /\ ~isVisible[last.was]
  /\ restTimeout = NoTimer
  /\ leavingVisibleTimer = NoTimer

\* C19: after any sequence of subscribe calls and calls of the returned
\* handles, the same handle possibly more than once, the registry holds
\* exactly the callbacks whose own handle has never been called, each once.
C19_HandlesIndependent ==
  /\ Range(subscriptions) = subscribed \ unsubscribed
  /\ Len(subscriptions) = Cardinality(subscribed \ unsubscribed)

\* C20: while the state is Dismissed the context id is non-null and is the
\* id the context held when Dismissed was entered; a blur from that trigger
\* passes the guard and moves the machine to Idle; and whenever Dismissed is
\* left the context id is null.
C20_DismissedOwner ==
  /\ [](state = DISMISSED => context.id \in Triggers)
  /\ [][state' = DISMISSED => context'.id = context.id]_vars
  /\ [][(state = DISMISSED /\ last'.ev = "blur" /\ last'.by = context.id)
          => last'.taken = 1 /\ state' = IDLE]_vars
  /\ [][(state = DISMISSED /\ state' # DISMISSED) => context'.id = null]_vars

\* a blur from the trigger that owned the dismissed tooltip has just
\* returned the machine to Idle
C20_Witness ==
  /\ last.ev = "blur"
  /\ last.from = DISMISSED
  /\ last.by = last.was
  /\ state = IDLE
  /\ context.id = null

====
